---------------------------- MODULE Spec2Model ----------------------------
(***************************************************************************)
(* The arcade scene viewer of src/src/main.cpp as a state machine: window, *)
(* audio and scene construction, then the frame loop of main (poll events, *)
(* clock, camera, per-frame uniforms, animators, clear, draw, display).    *)
(*                                                                         *)
(* Floats are fixed point numbers with Unit steps per 1.0 (seconds,        *)
(* degrees, radians and lengths alike); the clock counts ticks of half a   *)
(* second.                                                                 *)
(***************************************************************************)
EXTENDS Integers, Sequences, FiniteSets, TLC

VARIABLES pc, exitStatus, windowOk, events, running, last, dt,
          cameraPos, cameraFront, pitch, yaw,
          keys, uniforms, objects, animators, log

vars == <<pc, exitStatus, windowOk, events, running, last, dt,
          cameraPos, cameraFront, pitch, yaw,
          keys, uniforms, objects, animators, log>>

-----------------------------------------------------------------------------
(* Bounds of the model. *)

\* Ticks on the clock after which no further time passes in the model.
MaxTime == 2

\* Keys held down at once in one frame.
MaxKeys == 2

\* Window events pending in the queue at once.
MaxQueue == 2

-----------------------------------------------------------------------------
(* Fixed point arithmetic standing for float / glm::vec3. *)

\* Steps per 1.0 of a float.
Unit == 1000

\* F(v) with v computed once, however often F uses it.
Bind(v, F(_)) == CHOOSE r \in {F(x) : x \in {v}} : TRUE

\* a / b rounded to the nearest step, halves away from zero (b > 0).
RDiv(a, b) ==
    Bind(<<a, b>>, LAMBDA p :
        IF p[1] < 0 THEN -((2 * (-p[1]) + p[2]) \div (2 * p[2]))
                    ELSE (2 * p[1] + p[2]) \div (2 * p[2]))

\* Product of two fixed point numbers.
FMul(a, b) == RDiv(a * b, Unit)

Vec3(x, y, z) == [x |-> x, y |-> y, z |-> z]

VAdd(a, b) ==
    Bind(<<a, b>>, LAMBDA p : Vec3(p[1].x + p[2].x, p[1].y + p[2].y, p[1].z + p[2].z))

VSub(a, b) ==
    Bind(<<a, b>>, LAMBDA p : Vec3(p[1].x - p[2].x, p[1].y - p[2].y, p[1].z - p[2].z))

\* float * vec3
VScale(k, a) ==
    Bind(<<k, a>>, LAMBDA p : Vec3(FMul(p[1], p[2].x), FMul(p[1], p[2].y), FMul(p[1], p[2].z)))

VNeg(a) == Bind(a, LAMBDA v : Vec3(-v.x, -v.y, -v.z))

\* glm::dot
Dot(a, b) ==
    Bind(<<a, b>>, LAMBDA p :
        FMul(p[1].x, p[2].x) + FMul(p[1].y, p[2].y) + FMul(p[1].z, p[2].z))

\* glm::cross
Cross(a, b) ==
    Bind(<<a, b>>, LAMBDA p :
        Vec3(FMul(p[1].y, p[2].z) - FMul(p[2].y, p[1].z),
             FMul(p[1].z, p[2].x) - FMul(p[2].z, p[1].x),
             FMul(p[1].x, p[2].y) - FMul(p[2].x, p[1].y)))

RECURSIVE SqrtBetween(_, _, _)
\* The largest r in lo..hi with r * r <= n.
SqrtBetween(n, lo, hi) ==
    IF lo >= hi THEN lo
    ELSE Bind((lo + hi + 1) \div 2, LAMBDA mid :
             IF mid * mid <= n THEN SqrtBetween(n, mid, hi)
                               ELSE SqrtBetween(n, lo, mid - 1))

\* sqrt of a non-negative integer, rounded to the nearest integer.
ISqrt(n) ==
    Bind(n, LAMBDA v :
        Bind(SqrtBetween(v, 0, 40000), LAMBDA r :
            IF v - r * r > r THEN r + 1 ELSE r))

\* glm::length, in steps of 1/Unit.
Length(a) == Bind(a, LAMBDA v : ISqrt(v.x * v.x + v.y * v.y + v.z * v.z))

\* glm::normalize: v * inversesqrt(dot(v, v)).  The zero vector has no
\* direction; it is left as it is (the camera does not reach it within
\* the bounds: pitch stays under 90 degrees).
Normalize(a) ==
    Bind(<<a, Length(a)>>, LAMBDA p :
        IF p[2] = 0 THEN p[1]
        ELSE Vec3(RDiv(p[1].x * Unit, p[2]), RDiv(p[1].y * Unit, p[2]),
                  RDiv(p[1].z * Unit, p[2])))

\* cos of 0, 15, ..., 90 degrees in steps of 1/Unit.
CosTable == [a \in {0, 15, 30, 45, 60, 75, 90} |->
               CASE a = 0  -> 1000
                 [] a = 15 -> 966
                 [] a = 30 -> 866
                 [] a = 45 -> 707
                 [] a = 60 -> 500
                 [] a = 75 -> 259
                 [] a = 90 -> 0]

\* cos(glm::radians(d)) for d a multiple of 15 degrees, d in steps of 1/Unit.
CosDeg(d) ==
    LET a == (d \div Unit) % 360
    IN  CASE a <= 90  -> CosTable[a]
          [] a <= 180 -> -CosTable[180 - a]
          [] a <= 270 -> -CosTable[a - 180]
          [] OTHER    -> CosTable[360 - a]

\* sin(glm::radians(d)) for d a multiple of 15 degrees, d in steps of 1/Unit.
SinDeg(d) == CosDeg(d - 90 * Unit)

-----------------------------------------------------------------------------
(* Object3D and Animator: their code is in Object3D.h and Animator.h, which *)
(* main.cpp only includes.                                                  *)

Zero3 == Vec3(0, 0, 0)

\* M_PI in steps of 1/Unit.
Pi == 3142

\* The material of an object main never calls setMaterial on.
DefaultMaterial == <<>>

\* An object as assimpLoad or the Object3D constructor returns it.
Object3D(name) == [name |-> name, position |-> Zero3, orientation |-> Zero3,
                   scale |-> Vec3(Unit, Unit, Unit), material |-> DefaultMaterial]

setPosition(o, v) == [o EXCEPT !.position = v]

move(o, v) == [o EXCEPT !.position = VAdd(o.position, v)]

setScale(o, v) == [o EXCEPT !.scale = v]

rotate(o, v) == [o EXCEPT !.orientation = VAdd(o.orientation, v)]

setMaterial(o, m) == [o EXCEPT !.material = m]

getMaterial(o) == o.material

\* A RotationAnimation on objects[target]: angular velocity per second.
RotationAnimation(target, duration, velocity) ==
    [target |-> target, duration |-> duration, velocity |-> velocity,
     elapsed |-> 0, started |-> FALSE]

\* Animator::start: every animation is started, its elapsed time reset.
AnimatorStart(anim) ==
    [k \in DOMAIN anim |-> [anim[k] EXCEPT !.started = TRUE, !.elapsed = 0]]

\* What one animation adds to the orientation of its target in a tick.
AnimationStep(a, t) ==
    IF a.started /\ a.elapsed < a.duration
    THEN VScale(t, a.velocity)
    ELSE Zero3

RECURSIVE TickObjects(_, _, _)
\* The objects after Animator::tick(t) of the animations anim[1..n].
TickObjects(anim, objs, t) ==
    IF anim = <<>> THEN objs
    ELSE LET a == Head(anim)
         IN  TickObjects(Tail(anim),
                 [objs EXCEPT ![a.target] = rotate(@, AnimationStep(a, t))], t)

\* The animations after Animator::tick(t).
TickAnimations(anim, t) ==
    [k \in DOMAIN anim |->
        IF anim[k].started /\ anim[k].elapsed < anim[k].duration
        THEN [anim[k] EXCEPT !.elapsed = @ + t] ELSE anim[k]]

-----------------------------------------------------------------------------
(* arcadeScene *)

\* vec3(v, v, v)
Splat(v) == Vec3(v, v, v)

\* glm::vec3 of whole numbers.
IVec3(x, y, z) == Vec3(x * Unit, y * Unit, z * Unit)

\* The twelve arcade machines and the ufo, as loaded and placed.
pacmanObj ==
    rotate(setPosition(setScale(Object3D("pacman"), Splat(140)),
                       IVec3(-35, -10, -35)), Vec3(0, RDiv(Pi, 4), 0))

finalFightObj ==
    setPosition(setScale(Object3D("finalFight"), Splat(13500)), IVec3(-10, -10, -40))

streetFighterObj ==
    rotate(setPosition(setScale(Object3D("streetFighter"), Splat(16000)),
                       IVec3(8, 5, -30)), Vec3(0, RDiv(Pi, 6), 0))

pixelPoroObj ==
    rotate(setPosition(setScale(Object3D("pixelPoro"), Splat(3500)),
                       IVec3(37, -10, -34)), Vec3(0, RDiv(-Pi, 4), 0))

kirbyObj ==
    rotate(setPosition(Object3D("kirby"), IVec3(40, -10, -12)),
           Vec3(0, RDiv(-Pi, 2), 0))

cyberWingObj ==
    setPosition(setScale(Object3D("cyberWing"), Splat(1100)), IVec3(40, -10, 10))

ddrObj ==
    rotate(move(setScale(Object3D("ddr"), Splat(4000)), IVec3(82, -10, -12)),
           Vec3(0, RDiv(-(3 * Pi), 4), 0))

diabloObj ==
    rotate(setPosition(setScale(Object3D("diablo"), Splat(14000)),
                       IVec3(12, 0, 40)), Vec3(0, RDiv(Pi, 2), 0))

runeObj ==
    rotate(move(setScale(Object3D("rune"), Splat(310)), IVec3(-5, -10, 40)),
           Vec3(0, RDiv(5 * Pi, 6), 0))

mortalKombatObj ==
    rotate(setPosition(setScale(Object3D("mortalKombat"), Splat(14000)),
                       IVec3(-54, 3, 80)), Vec3(0, RDiv(5 * Pi, 6), 0))

spaceInvadersObj ==
    rotate(setPosition(setScale(Object3D("spaceInvaders"), Splat(65)),
                       IVec3(-40, 3, 15)), Vec3(0, RDiv(Pi, 4), 0))

donkeyKongObj ==
    rotate(setPosition(setScale(Object3D("donkeyKong"), Splat(3500)),
                       IVec3(-40, 0, -15)), Vec3(0, RDiv(Pi, 2), 0))

ufoObj ==
    move(setScale(Object3D("ufo"), Splat(60)), IVec3(0, 20, 0))

\* The room: floor, four walls, ceiling.
floorObj ==
    setMaterial(rotate(move(setScale(Object3D("floor"), IVec3(100, 100, 100)),
                            IVec3(0, -10, 0)), Vec3(RDiv(-Pi, 2), 0, 0)),
                <<800, 800, 800, 1000>>)

frontWallObj ==
    setMaterial(move(setScale(Object3D("frontWall"), IVec3(100, 100, 100)),
                     IVec3(0, 0, -50)), <<400, 400, 900, 1000>>)

leftWallObj ==
    setMaterial(rotate(move(setScale(Object3D("leftWall"), IVec3(100, 100, 100)),
                            IVec3(-50, 0, 0)), Vec3(0, RDiv(-Pi, 2), 0)),
                <<400, 400, 900, 1000>>)

rightWallObj ==
    setMaterial(rotate(move(setScale(Object3D("rightWall"), IVec3(100, 100, 100)),
                            IVec3(50, 0, 0)), Vec3(0, RDiv(-Pi, 2), 0)),
                <<400, 400, 900, 1000>>)

backWallObj ==
    setMaterial(move(setScale(Object3D("backWall"), IVec3(100, 100, 100)),
                     IVec3(0, 0, 50)), <<400, 400, 900, 1000>>)

ceilingObj ==
    setMaterial(move(rotate(setScale(Object3D("ceiling"), IVec3(100, 100, 100)),
                            Vec3(RDiv(-Pi, 2), 0, 0)), IVec3(0, 30, 0)),
                <<800, 800, 800, 1000>>)

\* Mutant of SceneObjects: the room is pushed before the machines.
SceneObjectsRoomFirst ==
    <<floorObj, frontWallObj, leftWallObj, rightWallObj, backWallObj, ceilingObj,
      ufoObj, pacmanObj, finalFightObj, streetFighterObj, pixelPoroObj, kirbyObj,
      cyberWingObj, ddrObj, diabloObj, runeObj, mortalKombatObj, spaceInvadersObj,
      donkeyKongObj>>

\* scene.objects after the push_backs of arcadeScene, in their order.
SceneObjects ==
    <<ufoObj, pacmanObj, finalFightObj, streetFighterObj, pixelPoroObj, kirbyObj,
      cyberWingObj, ddrObj, diabloObj, runeObj, mortalKombatObj, spaceInvadersObj,
      donkeyKongObj,
      floorObj, frontWallObj, leftWallObj, rightWallObj, backWallObj, ceilingObj>>

\* Mutant of SceneAnimators: the ufo's animator is not commented out.
SceneAnimatorsUfo ==
    <<RotationAnimation(1, 60 * Unit, Vec3(0, 20 * Pi, 0))>>

\* scene.animators after arcadeScene: the ufo's animator is commented out.
SceneAnimators == <<>>

-----------------------------------------------------------------------------
(* The camera of main. *)

cameraUp == Vec3(0, Unit, 0)

\* float cameraSpeed = 10
cameraSpeed == 10

\* float sens = 30 * dt
LookRate == 30

Keys == {"W", "A", "S", "D", "Up", "Down", "Left", "Right"}

\* What sf::Keyboard::isKeyPressed can report in one frame.
KeyStates == {ks \in SUBSET Keys : Cardinality(ks) <= MaxKeys}

\* cameraSpeed * dt * cameraFront
Forward(front, t) == VScale(FMul(cameraSpeed * Unit, t), front)

\* glm::normalize(glm::cross(cameraFront, cameraUp)) * cameraSpeed * dt
Sideways(front, t) ==
    VScale(t, VScale(cameraSpeed * Unit, Normalize(Cross(front, cameraUp))))

\* Mutant of MoveCamera: the S branch adds, as the W branch does.
MoveCameraBackAdds(pos, front, ks, t) ==
    LET p1 == IF "W" \in ks THEN VAdd(pos, Forward(front, t)) ELSE pos
        p2 == IF "S" \in ks THEN VAdd(p1, Forward(front, t)) ELSE p1
        p3 == IF "A" \in ks THEN VSub(p2, Sideways(front, t)) ELSE p2
        p4 == IF "D" \in ks THEN VAdd(p3, Sideways(front, t)) ELSE p3
    IN  p4

\* The four ifs on W, S, A, D, in their order.
MoveCamera(pos, front, ks, t) ==
    LET p1 == IF "W" \in ks THEN VAdd(pos, Forward(front, t)) ELSE pos
        p2 == IF "S" \in ks THEN VSub(p1, Forward(front, t)) ELSE p1
        p3 == IF "A" \in ks THEN VSub(p2, Sideways(front, t)) ELSE p2
        p4 == IF "D" \in ks THEN VAdd(p3, Sideways(front, t)) ELSE p3
    IN  p4

\* Mutant of Sens: the sign of the look keys is inverted.
SensInverted(t) == -FMul(LookRate * Unit, t)

\* float sens = 30 * dt
Sens(t) == FMul(LookRate * Unit, t)

\* The ifs on Up and Down.
LookPitch(p, ks, t) ==
    LET p1 == IF "Up" \in ks THEN p + Sens(t) ELSE p
        p2 == IF "Down" \in ks THEN p1 - Sens(t) ELSE p1
    IN  p2

\* The ifs on Left and Right.
LookYaw(y, ks, t) ==
    LET y1 == IF "Left" \in ks THEN y - Sens(t) ELSE y
        y2 == IF "Right" \in ks THEN y1 + Sens(t) ELSE y1
    IN  y2

\* cameraFront from yaw and pitch (degrees, in steps of 1/Unit).
Front(y, p) ==
    Normalize(Vec3(FMul(CosDeg(y), CosDeg(p)), SinDeg(p), FMul(SinDeg(y), CosDeg(p))))

\* glm::lookAt(eye, center, up): the rows s, u, -f of the view matrix and
\* its translation column.
LookAt(eye, center, up) ==
    Bind(Normalize(VSub(center, eye)), LAMBDA f :
        Bind(Normalize(Cross(f, up)), LAMBDA s :
            Bind(Cross(s, f), LAMBDA u :
                [s |-> s, u |-> u, f |-> VNeg(f),
                 t |-> Vec3(-Dot(s, eye), -Dot(u, eye), Dot(f, eye))])))

\* sf::VideoMode{ 1200, 800 }
WindowSize == <<1200, 800>>

\* tan(glm::radians(45.0) / 2) in steps of 1/Unit.
TanHalfFov == 414

\* glm::perspective(glm::radians(45.0), width / height, 0.1, 100.0): the
\* entries [0][0], [1][1], [2][2] and [3][2] of the matrix, with near and
\* far in steps of 1/Unit.
Perspective(size, near, far) ==
    [m00 |-> RDiv(Unit * Unit * size[2], TanHalfFov * size[1]),
     m11 |-> RDiv(Unit * Unit, TanHalfFov),
     m22 |-> -RDiv((far + near) * Unit, far - near),
     m32 |-> -RDiv(2 * far * near, far - near)]

\* ShaderProgram::setUniform(name, value)
setUniform(u, name, value) ==
    [n \in DOMAIN u \cup {name} |-> IF n = name THEN value ELSE u[n]]

-----------------------------------------------------------------------------
(* main *)

\* The window events the loop tells apart: Closed, and any other.
EventTypes == {"Closed", "KeyPressed"}

\* Ticks of the model's clock in one second.
TicksPerSecond == 2

\* sf::Time::asSeconds
asSeconds(ticks) == RDiv(ticks * Unit, TicksPerSecond)

Init ==
    /\ pc = "window"
    /\ exitStatus = "none"
    /\ windowOk = FALSE
    /\ events = <<>>
    /\ running = TRUE
    /\ last = 0
    /\ dt = 0
    /\ cameraPos = IVec3(0, 0, 5)
    /\ cameraFront = IVec3(0, 0, -1)
    /\ pitch = 0
    /\ yaw = -90 * Unit
    /\ keys = {}
    /\ uniforms = <<>>
    /\ objects = <<>>
    /\ animators = <<>>
    /\ log = <<>>

cameraVars == <<cameraPos, cameraFront, pitch, yaw, keys>>

sceneVars == <<objects, animators>>

\* sf::Window window(...): the constructor reports a failure to sf::err()
\* only, and main does not ask window.isOpen().
CreateWindow ==
    /\ pc = "window"
    /\ \E ok \in BOOLEAN : windowOk' = ok
    /\ pc' = "music"
    /\ UNCHANGED <<exitStatus, events, running, last, dt, cameraVars,
                   uniforms, sceneVars, log>>

\* backgroundMusic.openFromFile: return 1 when it fails.
OpenMusic ==
    /\ pc = "music"
    /\ \E ok \in BOOLEAN :
          IF ok THEN pc' = "gl" /\ exitStatus' = exitStatus
                ELSE pc' = "exit" /\ exitStatus' = "1"
    /\ UNCHANGED <<windowOk, events, running, last, dt, cameraVars,
                   uniforms, sceneVars, log>>

\* gladLoadGL(); glEnable(GL_DEPTH_TEST): with no OpenGL context the calls
\* are undefined: the process may die of a signal or go on.
LoadGL ==
    /\ pc = "gl"
    /\ \/ pc' = "scene" /\ exitStatus' = exitStatus
       \/ ~windowOk /\ pc' = "exit" /\ exitStatus' = "signal"
    /\ UNCHANGED <<windowOk, events, running, last, dt, cameraVars,
                   uniforms, sceneVars, log>>

\* phongLightingShader: shader.load throws, the catch prints and exit(1).
ShaderLoadFails ==
    /\ pc = "scene"
    /\ pc' = "exit"
    /\ exitStatus' = "1"
    /\ UNCHANGED <<windowOk, events, running, last, dt, cameraVars,
                   uniforms, sceneVars, log>>

\* assimpLoad or loadTexture fails on an asset: fatal while the scene is
\* built, no partial scene.
AssetLoadFails ==
    /\ pc = "scene"
    /\ pc' = "exit"
    /\ exitStatus' = "1"
    /\ UNCHANGED <<windowOk, events, running, last, dt, cameraVars,
                   uniforms, sceneVars, log>>

\* arcadeScene returns the scene.
ArcadeScene ==
    /\ pc = "scene"
    /\ objects' = SceneObjects
    /\ animators' = SceneAnimators
    /\ pc' = "setup"
    /\ UNCHANGED <<exitStatus, windowOk, events, running, last, dt, cameraVars,
                   uniforms, log>>

\* From program.activate() to the start of the animators.
Setup ==
    /\ pc = "setup"
    /\ cameraPos' = IVec3(0, 0, 5)
    /\ cameraFront' = IVec3(0, 0, -1)
    /\ pitch' = 0
    /\ yaw' = -90 * Unit
    /\ uniforms' = setUniform(setUniform(uniforms, "ambientColor", Vec3(500, 500, 500)),
                              "directionalColor", Vec3(1000, 1000, 800))
    /\ log' = <<<<"uniform", "ambientColor">>, <<"uniform", "directionalColor">>>>
    /\ running' = TRUE
    /\ last' = 0
    /\ animators' = AnimatorStart(animators)
    /\ pc' = "while"
    /\ UNCHANGED <<exitStatus, windowOk, events, dt, keys, objects>>

\* The operating system queues a window event.  pollEvent shows the loop
\* the same events whether they came before or during the drain, so they
\* are queued before the drain starts.
OsEvent ==
    /\ pc = "while"
    /\ windowOk
    /\ Len(events) < MaxQueue
    /\ \E e \in EventTypes : events' = Append(events, e)
    /\ UNCHANGED <<pc, exitStatus, windowOk, running, last, dt, cameraVars,
                   uniforms, sceneVars, log>>

\* while (running): the next iteration starts, or main returns 0.  dt is a
\* local of the loop body.
LoopTest ==
    /\ pc = "while"
    /\ IF running
       THEN pc' = "poll" /\ log' = <<>> /\ dt' = 0 /\ exitStatus' = exitStatus
       ELSE pc' = "exit" /\ exitStatus' = "0" /\ log' = log /\ dt' = dt
    /\ UNCHANGED <<windowOk, events, running, last, cameraVars,
                   uniforms, sceneVars>>

\* Mutant of PollEvent: a Closed event is dropped like any other.
PollEventKeepsRunning ==
    /\ pc = "poll"
    /\ events # <<>>
    /\ events' = Tail(events)
    /\ UNCHANGED <<pc, exitStatus, windowOk, running, last, dt, cameraVars,
                   uniforms, sceneVars, log>>

\* window.pollEvent(ev) returns an event.
PollEvent ==
    /\ pc = "poll"
    /\ events # <<>>
    /\ events' = Tail(events)
    /\ running' = IF Head(events) = "Closed" THEN FALSE ELSE running
    /\ UNCHANGED <<pc, exitStatus, windowOk, last, dt, cameraVars,
                   uniforms, sceneVars, log>>

\* Mutant of EventsDrained: after a Closed event the rest of the loop body
\* is skipped.
EventsDrainedBreak ==
    /\ pc = "poll"
    /\ events = <<>>
    /\ log' = Append(log, <<"events">>)
    /\ pc' = IF running THEN "clock" ELSE "while"
    /\ UNCHANGED <<exitStatus, windowOk, events, running, last, dt, cameraVars,
                   uniforms, sceneVars>>

\* window.pollEvent(ev) returns false: the queue is drained.
EventsDrained ==
    /\ pc = "poll"
    /\ events = <<>>
    /\ log' = Append(log, <<"events">>)
    /\ pc' = "clock"
    /\ UNCHANGED <<exitStatus, windowOk, events, running, last, dt, cameraVars,
                   uniforms, sceneVars>>

\* now = c.getElapsedTime(); dt = (now - last).asSeconds(); last = now
ReadClock ==
    /\ pc = "clock"
    /\ \E now \in last .. MaxTime :
          /\ dt' = asSeconds(now - last)
          /\ last' = now
    /\ log' = Append(log, <<"clock">>)
    /\ pc' = "keys"
    /\ UNCHANGED <<exitStatus, windowOk, events, running, cameraVars,
                   uniforms, sceneVars>>

\* What the sf::Keyboard::isKeyPressed calls of this frame report.
ReadKeys ==
    /\ pc = "keys"
    /\ \E ks \in KeyStates : keys' = ks
    /\ pc' = "camera"
    /\ UNCHANGED <<exitStatus, windowOk, events, running, last, dt,
                   cameraPos, cameraFront, pitch, yaw, uniforms, sceneVars, log>>

\* Mutant of UpdateCamera: cameraFront is recomputed before the camera moves.
UpdateCameraLookFirst ==
    /\ pc = "camera"
    /\ pitch' = LookPitch(pitch, keys, dt)
    /\ yaw' = LookYaw(yaw, keys, dt)
    /\ cameraFront' = Front(yaw', pitch')
    /\ cameraPos' = MoveCamera(cameraPos, cameraFront', keys, dt)
    /\ keys' = {}
    /\ log' = Append(log, <<"camera">>)
    /\ pc' = "uniforms"
    /\ UNCHANGED <<exitStatus, windowOk, events, running, last, dt,
                   uniforms, sceneVars>>

\* The key ifs on the camera, then cameraFront from yaw and pitch.
UpdateCamera ==
    /\ pc = "camera"
    /\ cameraPos' = MoveCamera(cameraPos, cameraFront, keys, dt)
    /\ pitch' = LookPitch(pitch, keys, dt)
    /\ yaw' = LookYaw(yaw, keys, dt)
    /\ cameraFront' = Front(yaw', pitch')
    /\ keys' = {}
    /\ log' = Append(log, <<"camera">>)
    /\ pc' = "uniforms"
    /\ UNCHANGED <<exitStatus, windowOk, events, running, last, dt,
                   uniforms, sceneVars>>

\* The uniforms main sets in every frame, in the order of its calls.
FrameUniforms ==
    <<<<"view", LookAt(cameraPos, VAdd(cameraPos, cameraFront), cameraUp)>>,
      <<"projection", Perspective(WindowSize, 100, 100 * Unit)>>,
      <<"viewPos", cameraPos>>,
      <<"directionalLight", cameraFront>>>>

RECURSIVE setUniforms(_, _)
\* setUniform for each <<name, value>> of calls, in their order.
setUniforms(u, calls) ==
    Bind(<<u, calls>>, LAMBDA p :
        IF p[2] = <<>> THEN p[1]
        ELSE setUniforms(setUniform(p[1], Head(p[2])[1], Head(p[2])[2]), Tail(p[2])))

\* The view and projection matrices and the four setUniform calls.
SetFrameUniforms ==
    /\ pc = "uniforms"
    /\ uniforms' = setUniforms(uniforms, FrameUniforms)
    /\ log' = log \o [k \in DOMAIN FrameUniforms |-> <<"uniform", FrameUniforms[k][1]>>]
    /\ pc' = "tick"
    /\ UNCHANGED <<exitStatus, windowOk, events, running, last, dt, cameraVars,
                   sceneVars>>

\* for (auto& anim : myScene.animators) anim.tick(dt)
TickAnimators ==
    /\ pc = "tick"
    /\ objects' = TickObjects(animators, objects, dt)
    /\ animators' = TickAnimations(animators, dt)
    /\ log' = log \o [k \in DOMAIN animators |-> <<"tick", k>>]
    /\ pc' = "clear"
    /\ UNCHANGED <<exitStatus, windowOk, events, running, last, dt, cameraVars,
                   uniforms>>

\* glClear(GL_COLOR_BUFFER_BIT | GL_DEPTH_BUFFER_BIT)
Clear ==
    /\ pc = "clear"
    /\ log' = Append(log, <<"clear">>)
    /\ pc' = "draw"
    /\ UNCHANGED <<exitStatus, windowOk, events, running, last, dt, cameraVars,
                   uniforms, sceneVars>>

\* Mutant of DrawCalls: each object is rendered before its material is set.
DrawCallsRenderFirst(objs) ==
    [k \in 1 .. 2 * Len(objs) |->
        IF k % 2 = 1 THEN <<"render", (k + 1) \div 2>> ELSE <<"material", k \div 2>>]

\* The calls of the loop over objs: for each object its material uniform,
\* then its render.
DrawCalls(objs) ==
    [k \in 1 .. 2 * Len(objs) |->
        IF k % 2 = 1 THEN <<"material", (k + 1) \div 2>> ELSE <<"render", k \div 2>>]

\* for (auto& o : myScene.objects) { setUniform("material", ...); o.render(...); }
DrawObjects ==
    /\ pc = "draw"
    /\ uniforms' = IF objects = <<>> THEN uniforms
                   ELSE setUniform(uniforms, "material",
                                   getMaterial(objects[Len(objects)]))
    /\ log' = log \o DrawCalls(objects)
    /\ pc' = "display"
    /\ UNCHANGED <<exitStatus, windowOk, events, running, last, dt, cameraVars,
                   sceneVars>>

\* window.display()
Display ==
    /\ pc = "display"
    /\ log' = Append(log, <<"display">>)
    /\ pc' = "while"
    /\ UNCHANGED <<exitStatus, windowOk, events, running, last, dt, cameraVars,
                   uniforms, sceneVars>>

\* The steps of the program.
Program ==
    \/ CreateWindow \/ OpenMusic \/ LoadGL
    \/ ShaderLoadFails \/ AssetLoadFails \/ ArcadeScene \/ Setup
    \/ LoopTest \/ PollEvent \/ EventsDrained \/ ReadClock \/ ReadKeys
    \/ UpdateCamera \/ SetFrameUniforms \/ TickAnimators \/ Clear
    \/ DrawObjects \/ Display

Next == Program \/ OsEvent

Spec == Init /\ [][Next]_vars

\* The program is one thread that is never suspended for good: whenever it
\* has a next step it takes it.
FairSpec == Spec /\ WF_vars(Program)

-----------------------------------------------------------------------------
(* What the properties below read off a state. *)

\* The program points inside an iteration of the frame loop.
FramePcs == {"poll", "clock", "keys", "camera", "uniforms", "tick", "clear",
             "draw", "display"}

\* The program points from the first setUniform of a frame to its end.
DrawingPcs == {"tick", "clear", "draw", "display"}

\* The log holds the calls of an iteration (not those of Setup).
InFrame == pc \in FramePcs \/ (log # <<>> /\ log[1] = <<"events">>)

\* An iteration has run to its end: window.display() was its last call.
FrameDone == pc \in {"while", "exit"} /\ log # <<>> /\ log[Len(log)] = <<"display">>

\* How often the call c is in the log.
Count(c) == Cardinality({k \in DOMAIN log : log[k] = c})

\* The indexes of the objects rendered, in the order of their render calls.
Rendered ==
    LET r == SelectSeq(log, LAMBDA c : c[1] = "render")
    IN  [k \in DOMAIN r |-> r[k][2]]

\* An event of type Closed is what the next pollEvent returns.
PollsClosed == pc = "poll" /\ events # <<>> /\ Head(events) = "Closed"

\* The calls of one whole iteration over na animators and no objects.
WholeFrame(na, no) ==
    <<<<"events">>, <<"clock">>, <<"camera">>,
      <<"uniform", "view">>, <<"uniform", "projection">>,
      <<"uniform", "viewPos">>, <<"uniform", "directionalLight">>>>
    \o [k \in 1 .. na |-> <<"tick", k>>]
    \o <<<<"clear">>>>
    \o [k \in 1 .. 2 * no |-> <<IF k % 2 = 1 THEN "material" ELSE "render", (k + 1) \div 2>>]
    \o <<<<"display">>>>

\* How many calls of its iteration the loop has made when it is at p.
CallsBefore(p, na, no) ==
    CASE p = "poll"     -> 0
      [] p = "clock"    -> 1
      [] p = "keys"     -> 2
      [] p = "camera"   -> 2
      [] p = "uniforms" -> 3
      [] p = "tick"     -> 7
      [] p = "clear"    -> 7 + na
      [] p = "draw"     -> 8 + na
      [] p = "display"  -> 8 + na + 2 * no

-----------------------------------------------------------------------------
(* C1 *)

\* C1: once a Closed event has set running to false, the loop makes no
\* render call and no window.display() call any more.
C1_NoDrawAfterClose ==
    [][~running =>
          \A k \in (Len(log) + 1) .. Len(log') :
              log'[k][1] \notin {"render", "display"}]_vars

\* What the code does instead: the iteration that polled the Closed event
\* runs to its end, all objects rendered and the buffers swapped.
C1_CloseFrameIsDrawn ==
    (pc = "exit" /\ exitStatus = "0") =>
        /\ ~running
        /\ FrameDone
        /\ Len(Rendered) = Len(objects)

-----------------------------------------------------------------------------
(* C2 *)

\* C2: every iteration of the frame loop makes its calls in the one order
\* events, clock, camera, the per-frame uniforms, the animators' ticks,
\* clear, material and render of each object, display, each once and none
\* skipped (also in the iteration that polled a Closed event), and dt keeps
\* the value the clock step gave it to the end of the iteration.
C2_FrameOrder ==
    /\ [](/\ pc \in FramePcs =>
               log = SubSeq(WholeFrame(Len(animators), Len(objects)), 1,
                            CallsBefore(pc, Len(animators), Len(objects)))
          /\ (pc = "while" /\ InFrame) =>
               log = WholeFrame(Len(animators), Len(objects))
          /\ (pc = "exit" /\ exitStatus = "0") =>
               log = WholeFrame(Len(animators), Len(objects)))
    /\ [][(pc \in FramePcs /\ pc \notin {"poll", "clock"}) => (dt' = dt)]_vars

\* An iteration that polled a Closed event has run to its end.
C2_Witness ==
    pc = "while" /\ ~running /\ FrameDone /\ dt > 0 /\ Len(log) = 47

-----------------------------------------------------------------------------
(* C3 *)

\* C3: running turns false only in a pollEvent that returns a Closed event,
\* main returns only with running false, a polled Closed event leads to
\* main's return with status 0, and no iteration starts once running is
\* false.
C3_ExitOnlyOnClose ==
    /\ [][(running /\ ~running') => PollsClosed]_vars
    /\ []((pc = "exit" /\ exitStatus = "0") => ~running)
    /\ (PollsClosed ~> (pc = "exit" /\ exitStatus = "0"))
    /\ [][(~running /\ pc = "while") => (pc' \notin FramePcs)]_vars

\* main has returned 0 after a Closed event.
C3_Witness == pc = "exit" /\ exitStatus = "0" /\ ~running

-----------------------------------------------------------------------------
(* C4 *)

\* The uniforms the claim calls per-frame-global.
PerFrameNames == {"view", "projection", "viewPos", "directionalLight"}

\* Every material call is followed at once by the render of its object,
\* and every render call follows the material call of its object.
MaterialThenRender ==
    \A k \in DOMAIN log :
        /\ log[k][1] = "material" =>
              k < Len(log) /\ log[k + 1] = <<"render", log[k][2]>>
        /\ log[k][1] = "render" =>
              k > 1 /\ log[k - 1] = <<"material", log[k][2]>>

\* No uniform of names is set after the first material or render call.
BeforeObjectLoop(names) ==
    \A j, k \in DOMAIN log :
        (log[j][1] \in {"material", "render"} /\ log[k][1] = "uniform"
           /\ log[k][2] \in names) => k < j

\* C4 as claimed: in every frame view, projection, viewPos, directionalLight
\* and directionalColor are each set exactly once, before the object loop,
\* and each object's material is set immediately before its render.
C4_AllSetEveryFrame ==
    /\ FrameDone =>
          \A n \in PerFrameNames \cup {"directionalColor"} : Count(<<"uniform", n>>) = 1
    /\ InFrame => BeforeObjectLoop(PerFrameNames \cup {"directionalColor"})
    /\ InFrame => MaterialThenRender

\* C4 as amended: in every frame view, projection, viewPos and
\* directionalLight are each set exactly once, before the object loop;
\* directionalColor is set once before the first frame and in no frame; each
\* object's material is set immediately before its render.
C4_PerFrameUniforms ==
    /\ FrameDone => \A n \in PerFrameNames : Count(<<"uniform", n>>) = 1
    /\ (InFrame /\ pc \in DrawingPcs) =>
          \A n \in PerFrameNames : Count(<<"uniform", n>>) = 1
    /\ InFrame => BeforeObjectLoop(PerFrameNames)
    /\ InFrame => Count(<<"uniform", "directionalColor">>) = 0
    /\ (pc = "while" /\ ~InFrame) => Count(<<"uniform", "directionalColor">>) = 1
    /\ (pc \in FramePcs \cup {"while"}) => "directionalColor" \in DOMAIN uniforms
    /\ InFrame => MaterialThenRender

\* A frame has run to its end with all its objects drawn.
C4_Witness ==
    FrameDone /\ Count(<<"material", 1>>) = 1 /\ Count(<<"render", 19>>) = 1
      /\ "view" \in DOMAIN uniforms

-----------------------------------------------------------------------------
(* C5 *)

\* C5: the only exit statuses are 0 and 1; 0 only by leaving the loop after
\* a Closed event; a failed window creation, like the other fatal errors of
\* the start, ends the process with status 1 before any frame is rendered.
C5_ExitZeroOrOne ==
    /\ exitStatus \in {"none", "0", "1"}
    /\ exitStatus = "0" => (~running /\ FrameDone)
    /\ exitStatus = "1" => ~InFrame
    /\ (pc # "window" /\ ~windowOk) => (pc = "exit" /\ exitStatus = "1")

-----------------------------------------------------------------------------
(* C6 *)

\* The names of the objects in the order arcadeScene pushes them.
PushOrder ==
    <<"ufo", "pacman", "finalFight", "streetFighter", "pixelPoro", "kirby",
      "cyberWing", "ddr", "diablo", "rune", "mortalKombat", "spaceInvaders",
      "donkeyKong", "floor", "frontWall", "leftWall", "rightWall", "backWall",
      "ceiling">>

\* C6: in every frame every object is rendered exactly once, in the order
\* arcadeScene pushed it: ufo, the twelve machines, floor, the four walls,
\* ceiling, 19 in all.
C6_DrawOrderIsPushOrder ==
    /\ pc \in FramePcs \cup {"while"} =>
          [k \in DOMAIN objects |-> objects[k].name] = PushOrder
    /\ (FrameDone \/ (InFrame /\ pc = "display")) =>
          [k \in DOMAIN Rendered |-> objects[Rendered[k]].name] = PushOrder
    /\ InFrame =>
          \A k \in DOMAIN Rendered : Rendered[k] = k

\* The nineteenth object, the ceiling, has been rendered last.
C6_Witness ==
    pc = "display" /\ Len(Rendered) = 19
      /\ objects[Rendered[19]].name = "ceiling" /\ objects[Rendered[1]].name = "ufo"

-----------------------------------------------------------------------------
(* C7 *)

\* 1 if key k is among the keys read in this frame, else 0.
Pressed(k) == IF k \in keys THEN 1 ELSE 0

\* n * a for an integer n.
Times(n, a) == Vec3(n * a.x, n * a.y, n * a.z)

\* speed * dt * front and speed * dt * right of the claim, for the front
\* vector the frame starts with.
AlongFront == VScale(cameraSpeed * dt, cameraFront)
AlongRight == VScale(cameraSpeed * dt, Normalize(Cross(cameraFront, cameraUp)))

-----------------------------------------------------------------------------
(* C8 *)

\* C8 as claimed: Up and Down add and subtract sensitivity * dt to pitch,
\* Right and Left to yaw, where sensitivity = 30 * dt; no look key, no
\* change.
C8_LookAddsSensTimesDt ==
    [][(pc = "camera") =>
          (/\ pitch' = pitch + (Pressed("Up") - Pressed("Down"))
                                  * FMul(FMul(LookRate * Unit, dt), dt)
           /\ yaw' = yaw + (Pressed("Right") - Pressed("Left"))
                              * FMul(FMul(LookRate * Unit, dt), dt))]_vars

\* C8 as amended: Up and Down add and subtract sensitivity to pitch, Right
\* and Left to yaw, where sensitivity = 30 * dt degrees; no look key, no
\* change.
C8_LookAddsSens ==
    [][(pc = "camera") =>
          (/\ pitch' = pitch + (Pressed("Up") - Pressed("Down")) * LookRate * dt
           /\ yaw' = yaw + (Pressed("Right") - Pressed("Left")) * LookRate * dt)]_vars

\* Half a second of Up from the start: pitch is 15 degrees, not 7.5.
C8_Witness ==
    pc = "uniforms" /\ dt = 500 /\ last = 1 /\ pitch = 15 * Unit /\ yaw = -90 * Unit

-----------------------------------------------------------------------------
(* C9 *)

\* C9: scene.animators is empty in every state, so no animator is started
\* or ticked; once arcadeScene has run the objects are those it built, in
\* every frame; a step of the frame loop leaves objects, animators and the
\* window as they are, and only the clock step changes last, only the
\* camera step the camera, only pollEvent the running flag.
C9_SceneIsStatic ==
    /\ [](/\ animators = <<>>
          /\ \A k \in DOMAIN log : log[k][1] # "tick"
          /\ (pc \in FramePcs \cup {"while"} \/ exitStatus = "0") =>
                objects = SceneObjects)
    /\ [][(pc \in FramePcs \cup {"while"}) =>
             (/\ objects' = objects
              /\ animators' = animators
              /\ windowOk' = windowOk
              /\ (pc # "clock") => (last' = last)
              /\ (pc # "camera") =>
                    <<cameraPos, cameraFront, pitch, yaw>>' =
                        <<cameraPos, cameraFront, pitch, yaw>>
              /\ (pc # "poll") => (running' = running))]_vars

\* The tick loop of a frame with dt > 0 is over and the objects are as
\* arcadeScene built them.
C9_Witness ==
    pc = "clear" /\ dt > 0 /\ Len(objects) = 19 /\ objects = SceneObjects
      /\ animators = <<>>

-----------------------------------------------------------------------------
(* C10 *)

\* The keys that move the camera.
MoveKeys == {"W", "A", "S", "D"}

\* C10: the camera step moves the position along the front vector it finds,
\* the one of yaw and pitch before the step, whatever look keys are pressed
\* in it, and then sets the front vector from the yaw and pitch after the
\* step; the uniforms step uploads view, viewPos and directionalLight from
\* that new front vector and the new position.
C10_MoveThenLook ==
    /\ [][(pc = "camera") =>
             (/\ cameraFront = Front(yaw, pitch)
              /\ cameraPos' = MoveCamera(cameraPos, Front(yaw, pitch), keys, dt)
              /\ cameraPos' = MoveCamera(cameraPos, cameraFront, keys \cap MoveKeys, dt)
              /\ cameraFront' = Front(yaw', pitch'))]_vars
    /\ [][(pc = "uniforms") =>
             (/\ uniforms'["directionalLight"] = Front(yaw, pitch)
              /\ uniforms'["viewPos"] = cameraPos
              /\ uniforms'["view"] =
                    LookAt(cameraPos, VAdd(cameraPos, Front(yaw, pitch)), cameraUp)
              /\ <<cameraPos, yaw, pitch>>' = <<cameraPos, yaw, pitch>>)]_vars

\* Half a second of Right, then half a second of W: the camera has moved
\* from (0,0,5) along the front vector of yaw = -75, and that vector is the
\* directionalLight uploaded.
C10_Witness ==
    /\ pc = "tick" /\ dt = 500 /\ last = 2
    /\ yaw = -75 * Unit /\ pitch = 0
    /\ cameraPos = VAdd(IVec3(0, 0, 5), VScale(5 * Unit, Front(-75 * Unit, 0)))
    /\ cameraPos.x > 0
    /\ uniforms["directionalLight"] = cameraFront

=============================================================================
